---- MODULE Spec2Model ----
(***************************************************************************)
(* Model of scripts/fetch_strava.py: the incremental activity cache, the   *)
(* Monday-anchored week partition, and the weekly rollover of reports.     *)
(*                                                                         *)
(* Time.  A datetime is an integer count of ticks of local wall-clock time *)
(* (TicksPerDay ticks a day); a date is a day number; day 0 is a Monday.   *)
(* The ISO strings of "start_date_local" all have one fixed format, so     *)
(* their lexicographic order is the order of the instants they denote and  *)
(* a record carries the instant.                                           *)
(*                                                                         *)
(* Files.  The cache file, the live report and the directory of permanent  *)
(* reports are the persisted state.  An activity record carries the two    *)
(* fields the engine looks at, "id" and "start_date_local".                *)
(***************************************************************************)
EXTENDS Integers, Sequences, FiniteSets, TLC

----------------------------------------------------------------------------
(* Bounds of the model *)

NumWeeks == 2       \* 'now' is drawn from the weeks 1 .. NumWeeks
TicksPerDay == 2    \* resolution of the clock within one day
MaxId == 2          \* activity identifiers are 1 .. MaxId
MaxLegacy == 1      \* records of a legacy list-shaped cache file
MaxBatch == 2       \* records of one batch handed to the merge loop
MaxOffset == 1      \* the zone is at most this many ticks off UTC
PageSize == 2       \* records of a full page of the source (the code asks for 100)

(* Program constants *)

BACKFILL_DAYS == 14
DaysPerWeek == 7

----------------------------------------------------------------------------
(* Persisted state and the result of the last run *)

VARIABLES
    cacheFile,        \* data/activities_cache.json
    currentWeekFile,  \* data/current_week.md
    weeklyDir,        \* data/weekly/: a set of [label, text] files
    force,            \* args.force of the last run
    exit_status,      \* how the last run ended
    clock,            \* the values datetime.now() returned to the last run
    utc_offset,       \* the UTC offset of the local zone, in ticks
    after_epoch,      \* main's after_epoch once computed (<<>> before)
    mg_base,          \* merge: the cache before the first batch
    mg_prev,          \* merge: the cache before the last batch
    mg_cache,         \* merge: the cache after the batches merged so far
    mg_reverse,       \* merge: the cache after the same batches in reverse order
    mg_batches,       \* merge: the batches merged so far
    mg_added,         \* merge: the count 'added' of each merge
    pw_cache,         \* week partition: the cache
    pw_weeks,         \* week partition: activities_for_week of every Monday
    fetched,          \* paged fetch: the answers the last run received from the source
    steps,            \* statement by statement: the statements each process has executed
    mem,              \* statement by statement: the local variables of each process
    source            \* the activities the source holds

runVars == <<cacheFile, currentWeekFile, weeklyDir, force, exit_status, clock>>
cursorVars == <<utc_offset, after_epoch>>
mergeVars == <<mg_base, mg_prev, mg_cache, mg_reverse, mg_batches, mg_added>>
weekVars == <<pw_cache, pw_weeks>>
fetchVars == <<fetched>>
stepVars == <<steps, mem>>
sourceVars == <<source>>

vars == <<runVars, cursorVars, mergeVars, weekVars, fetchVars, stepVars, sourceVars>>

Ids == 1 .. MaxId
TicksPerWeek == DaysPerWeek * TicksPerDay

\* The start instants of records: the last tick of week 0 (a Sunday) and the
\* first tick of week 1 (a Monday)
Starts == { TicksPerWeek - 1, TicksPerWeek }
Activity == [id : Ids, start_date_local : Starts]

\* The instants 'now' is sampled from: the first and the last tick of each of
\* the weeks after week 0
NowSamples ==
    { w * TicksPerWeek + o : w \in 1 .. NumWeeks, o \in { 0, TicksPerWeek - 1 } }

RECURSIVE SeqsUpTo(_, _)
SeqsUpTo(S, n) ==
    IF n = 0 THEN { <<>> }
    ELSE LET shorter == SeqsUpTo(S, n - 1)
         IN  shorter \cup { Append(s, x) : s \in { t \in shorter : Len(t) = n - 1 }, x \in S }

\* What the fetch of one run returns: nothing, or one record (the merge of
\* longer lists is the subject of SpecMerge)
FetchResults == { <<>> } \cup { << a >> : a \in Activity }

NoFile == [kind |-> "absent"]

----------------------------------------------------------------------------
(* Cache management *)

\* str(a["id"])
str(i) == ToString(i)

HasKey(cache, k) == \E i \in 1 .. Len(cache) : cache[i].key = k

\* cache[k] = v on an insertion-ordered dict: a present key keeps its position
SetItem(cache, k, v) ==
    IF HasKey(cache, k)
    THEN [i \in 1 .. Len(cache) |->
            IF cache[i].key = k THEN [key |-> k, val |-> v] ELSE cache[i]]
    ELSE Append(cache, [key |-> k, val |-> v])

RECURSIVE FromList(_)
\* {str(a["id"]): a for a in data}
FromList(data) ==
    IF data = <<>> THEN <<>>
    ELSE LET a == data[Len(data)]
         IN  SetItem(FromList(SubSeq(data, 1, Len(data) - 1)), str(a.id), a)

\* The cache file holds a JSON list whose elements are not objects, such as
\* [1, 2]: a["id"] raises a TypeError, which load_cache does not catch
load_cache_raises(file) == file.kind = "scalars"

\* What load_cache returns is a dict: it returns any other parsed value, such
\* as the number of a cache file that holds 5, as it is
is_mapping(file) == file.kind # "number"

\* The mapping load_cache returns, when it returns one ("corrupt" is a file
\* that json.loads rejects or a list with a record without "id")
load_cache(file) ==
    IF file.kind = "absent" THEN <<>>
    ELSE IF file.kind = "corrupt" THEN <<>>
    ELSE IF file.kind = "list" THEN FromList(file.data)
    ELSE file.data

save_cache(cache) == [kind |-> "dict", data |-> cache]

\* The entries of a mapping, without their insertion order (dict equality)
Items(cache) == { cache[i] : i \in 1 .. Len(cache) }

Keys(cache) == { cache[i].key : i \in 1 .. Len(cache) }

\* Variant: the new record replaces a cached one with the same id
merge_one_overwrite(cache, a) ==
    LET aid == str(a.id)
    IN  [cache |-> SetItem(cache, aid, a), added |-> IF HasKey(cache, aid) THEN 0 ELSE 1]

\* Variant: the counter is incremented for every fetched record
merge_one_recount(cache, a) ==
    LET aid == str(a.id)
    IN  IF ~HasKey(cache, aid)
        THEN [cache |-> SetItem(cache, aid, a), added |-> 1]
        ELSE [cache |-> cache, added |-> 1]

\* Variant: a record counts as cached when one with the same start is cached
merge_one_by_start(cache, a) ==
    LET aid == str(a.id)
    IN  IF ~HasKey(cache, aid)
           /\ ~ \E i \in 1 .. Len(cache) : cache[i].val.start_date_local = a.start_date_local
        THEN [cache |-> SetItem(cache, aid, a), added |-> 1]
        ELSE [cache |-> cache, added |-> 0]

\* One iteration of the merge loop of main: insert only when the id is absent
merge_one(cache, a) ==
    LET aid == str(a.id)
    IN  IF ~HasKey(cache, aid)
        THEN [cache |-> SetItem(cache, aid, a), added |-> 1]
        ELSE [cache |-> cache, added |-> 0]

RECURSIVE merge(_, _)
\* The merge loop of main over new_activities, with its counter 'added'
merge(cache, new_activities) ==
    IF new_activities = <<>> THEN [cache |-> cache, added |-> 0]
    ELSE LET first == merge_one(cache, Head(new_activities))
             rest  == merge(first.cache, Tail(new_activities))
         IN  [cache |-> rest.cache, added |-> first.added + rest.added]

\* datetime.fromisoformat(s.replace("Z", "+00:00")).timestamp(): the wall-clock
\* instant of the string read as UTC
iso_timestamp(s) == s

\* naive local datetime.timestamp(): the wall clock minus the zone's UTC offset
local_timestamp(dt, offset) == dt - offset

RECURSIVE MaxByStart(_)
\* max(values, key=start_date_local): the first of the greatest
MaxByStart(values) ==
    IF Len(values) = 1 THEN values[1]
    ELSE LET m == MaxByStart(SubSeq(values, 1, Len(values) - 1))
             a == values[Len(values)]
         IN  IF a.start_date_local > m.start_date_local THEN a ELSE m

Values(cache) == [i \in 1 .. Len(cache) |-> cache[i].val]

\* Optional[int]: <<>> is None, <<t>> is the timestamp t
get_most_recent_timestamp(cache) ==
    IF cache = <<>> THEN <<>>
    ELSE << iso_timestamp(MaxByStart(Values(cache)).start_date_local) >>

\* Variant: --force does not empty the loaded cache
cache_in_use_keep(file, force_arg) ==
    IF is_mapping(file) THEN load_cache(file) ELSE <<>>

\* main, "Load cache": the cache in use, emptied by --force
cache_in_use(file, force_arg) ==
    LET cache == load_cache(file)
    IN  IF force_arg THEN <<>> ELSE cache

\* Variant: the lookback of a first or forced run is one week
fetch_window_one_week(file, force_arg, now, offset) ==
    LET cache == cache_in_use(file, force_arg)
        most_recent == get_most_recent_timestamp(cache)
    IN  IF most_recent = <<>>
        THEN local_timestamp(now - DaysPerWeek * TicksPerDay, offset)
        ELSE most_recent[1]

\* Variant: every run fetches the lookback window
fetch_window_always_backfill(file, force_arg, now, offset) ==
    local_timestamp(now - BACKFILL_DAYS * TicksPerDay, offset)

\* main, "Determine fetch window": the lower bound sent to the source
fetch_window(file, force_arg, now, offset) ==
    LET cache == cache_in_use(file, force_arg)
        most_recent == get_most_recent_timestamp(cache)
    IN  IF most_recent = <<>>
        THEN local_timestamp(now - BACKFILL_DAYS * TicksPerDay, offset)
        ELSE most_recent[1]

----------------------------------------------------------------------------
(* Strava API.  The source is the sequence of its answers to the requests  *)
(* for the pages 1, 2, ...: a page of records with status 200, or a bad    *)
(* status; past the last answer it holds, it answers with the empty page.  *)

OkPage(batch) == [status |-> 200, batch |-> batch]
ErrorPage == [status |-> 500, batch |-> <<>>]

Response(responses, page) ==
    IF page <= Len(responses) THEN responses[page] ELSE OkPage(<<>>)

RECURSIVE FetchPages(_, _, _)
\* The loop of fetch_activities_after from a page on: whether it returned
\* (raise_for_status raises on a bad status), all_activities at that point,
\* and the number of requests made
FetchPages(responses, page, all_activities) ==
    LET resp == Response(responses, page)
        batch == resp.batch
    IN  IF resp.status # 200
        THEN [ok |-> FALSE, all_activities |-> all_activities, requests |-> page]
        ELSE IF batch = <<>>
        THEN [ok |-> TRUE, all_activities |-> all_activities, requests |-> page]
        ELSE IF Len(batch) < PageSize
        THEN [ok |-> TRUE, all_activities |-> all_activities \o batch, requests |-> page]
        ELSE FetchPages(responses, page + 1, all_activities \o batch)

fetch_activities_after(responses) == FetchPages(responses, 1, <<>>)

----------------------------------------------------------------------------
(* Week helpers *)

\* datetime.date()
date(dt) == dt \div TicksPerDay

\* date.weekday(): Monday is 0
weekday(d) == d % DaysPerWeek

week_monday(dt) ==
    LET d == date(dt)
    IN  d - weekday(d)

\* The ISO week of a Monday, counted from the week of day 0
iso_week_label(monday_date) == monday_date \div DaysPerWeek

RECURSIVE InsertByStart(_, _)
\* Insert a behind every element whose key is not greater (stable sort)
InsertByStart(sorted, a) ==
    IF sorted = <<>> THEN << a >>
    ELSE LET last == sorted[Len(sorted)]
         IN  IF last.start_date_local <= a.start_date_local
             THEN Append(sorted, a)
             ELSE Append(InsertByStart(SubSeq(sorted, 1, Len(sorted) - 1), a), last)

RECURSIVE SortByStart(_)
\* list.sort(key=start_date_local)
SortByStart(list) ==
    IF list = <<>> THEN <<>>
    ELSE InsertByStart(SortByStart(SubSeq(list, 1, Len(list) - 1)), list[Len(list)])

\* Variant: the week runs through the following Monday
InWeek_through_monday(a, monday_date) ==
    LET d == date(a.start_date_local)
        sunday == monday_date + 7
    IN  monday_date <= d /\ d <= sunday

InWeek(a, monday_date) ==
    LET d == date(a.start_date_local)
        sunday == monday_date + 6
    IN  monday_date <= d /\ d <= sunday

activities_for_week(cache, monday_date) ==
    SortByStart(SelectSeq(Values(cache), LAMBDA a : InWeek(a, monday_date)))

----------------------------------------------------------------------------
(* Markdown generation.  A report is the record of the parts of its text   *)
(* that depend on the week, the clock and the activities.                  *)

\* One table row: the date column (the record carries no other column)
build_activity_row(a) == [date |-> date(a.start_date_local)]

Rows(activities) == [i \in 1 .. Len(activities) |-> build_activity_row(activities[i])]

Min(a, b) == IF a <= b THEN a ELSE b

\* The rest-day line of the totals: "Rest days so far: r/d" for the week that
\* contains today, "Rest days: r" otherwise
build_week_totals(activities, monday_date, totals_now) ==
    LET active_days == { date(activities[i].start_date_local) : i \in 1 .. Len(activities) }
        now == date(totals_now)
        sunday == monday_date + 6
        days_so_far == (Min(now, sunday) - monday_date) + 1
        rest_days == days_so_far - Cardinality(active_days)
        is_current == monday_date <= now /\ now <= sunday
    IN  IF is_current
        THEN [sessions |-> Len(activities), rest |-> << rest_days, days_so_far >>]
        ELSE [sessions |-> Len(activities), rest |-> << rest_days >>]

\* Variant: the seven days from today on instead of the Monday-anchored week
write_current_week_rolling(cache, now, totals_now) ==
    LET monday == date(now)
        activities == activities_for_week(cache, monday)
    IN  [kind |-> "current",
         monday |-> monday,
         updated |-> now,
         totals |-> build_week_totals(activities, monday, totals_now),
         rows |-> Rows(activities),
         placeholder |-> IF activities # <<>> THEN "" ELSE "No activities yet"]

\* The text written to data/current_week.md; 'now' is the clock read of
\* write_current_week, 'totals_now' the later read of build_week_totals
write_current_week(cache, now, totals_now) ==
    LET monday == week_monday(now)
        activities == activities_for_week(cache, monday)
    IN  [kind |-> "current",
         monday |-> monday,
         updated |-> now,
         totals |-> build_week_totals(activities, monday, totals_now),
         rows |-> Rows(activities),
         placeholder |-> IF activities # <<>> THEN "" ELSE "No activities yet"]

Exists(dir, label) == \E f \in dir : f.label = label

\* Variant: the file is created exclusively, an existing one is left alone
WriteWeekly_exclusive(dir, label, text) ==
    IF \E f \in dir : f.label = label THEN dir
    ELSE dir \cup { [label |-> label, text |-> text] }

\* Path.write_text on data/weekly/<label>.md
WriteWeekly(dir, label, text) ==
    { f \in dir : f.label # label } \cup { [label |-> label, text |-> text] }

WeeklyText(cache, monday_date, totals_now) ==
    LET activities == activities_for_week(cache, monday_date)
    IN  [kind |-> "weekly",
         week |-> iso_week_label(monday_date),
         monday |-> monday_date,
         totals |-> build_week_totals(activities, monday_date, totals_now),
         rows |-> Rows(activities),
         placeholder |-> IF activities # <<>> THEN "" ELSE "No activities"]

\* The directory of permanent reports after generate_weekly_summary
generate_weekly_summary(dir, cache, monday_date, totals_now) ==
    LET label == iso_week_label(monday_date)
    IN  IF Exists(dir, label)
        THEN dir
        ELSE WriteWeekly(dir, label, WeeklyText(cache, monday_date, totals_now))

\* Variant: last week's report is generated again on every run
check_weekly_rollover_regenerate(dir, cache, now, totals_now) ==
    LET last_monday == week_monday(now) - DaysPerWeek
        label == iso_week_label(last_monday)
    IN  [dir |-> WriteWeekly(dir, label, WeeklyText(cache, last_monday, totals_now)),
         label |-> << label >>]

\* Variant: the week before last is caught up when its report is missing
check_weekly_rollover_catch_up(dir, cache, now, totals_now) ==
    LET last_monday == week_monday(now) - DaysPerWeek
        before == generate_weekly_summary(dir, cache, last_monday - DaysPerWeek, totals_now)
    IN  [dir |-> generate_weekly_summary(before, cache, last_monday, totals_now),
         label |-> << iso_week_label(last_monday) >>]

\* The directory after check_weekly_rollover, and the label it returns
\* (<<>> is None)
check_weekly_rollover(dir, cache, now, totals_now) ==
    LET this_monday == week_monday(now)
        last_monday == this_monday - DaysPerWeek
        label == iso_week_label(last_monday)
    IN  IF ~Exists(dir, label)
        THEN [dir |-> generate_weekly_summary(dir, cache, last_monday, totals_now),
              label |-> << label >>]
        ELSE [dir |-> dir, label |-> <<>>]

----------------------------------------------------------------------------
(* One run of main, from the command line to the exit *)

\* The clock reads of a run after the fetch, in program order: the read of
\* check_weekly_rollover and the read of write_current_week.  The clock does
\* not go back during a run and advances by at most one tick between the two.
\* build_week_totals reads the clock itself, right after its caller did, and
\* is given its caller's read: for the permanent report the week ended before
\* that read, so every later read gives the same totals.
ClockReads ==
    { << now, now >> : now \in NowSamples }
        \cup { << now, now + 1 >> : now \in NowSamples }

\* Variant: the records received before a failed page request are merged and
\* saved before the error ends the run
main_save_partial(force_arg, credentials, token_ok, fetch_ok, new_activities, now) ==
    /\ UNCHANGED <<cursorVars, mergeVars, weekVars>>
    /\ force' = force_arg
    /\ clock' = now
    /\ IF ~credentials
       THEN /\ exit_status' = "config_error"
            /\ UNCHANGED <<cacheFile, currentWeekFile, weeklyDir>>
       ELSE IF load_cache_raises(cacheFile) \/ (~force_arg /\ ~is_mapping(cacheFile))
       THEN /\ exit_status' = "crash"
            /\ UNCHANGED <<cacheFile, currentWeekFile, weeklyDir>>
       ELSE IF ~token_ok
       THEN /\ exit_status' = "auth_error"
            /\ UNCHANGED <<cacheFile, currentWeekFile, weeklyDir>>
       ELSE IF ~fetch_ok
       THEN /\ exit_status' = "fetch_error"
            /\ cacheFile' = save_cache(merge(cache_in_use(cacheFile, force_arg),
                                             new_activities).cache)
            /\ UNCHANGED <<currentWeekFile, weeklyDir>>
       ELSE LET cache == cache_in_use(cacheFile, force_arg)
                merged == merge(cache, new_activities).cache
                rollover == check_weekly_rollover(weeklyDir, merged, now[1], now[1])
            IN  /\ cacheFile' = save_cache(merged)
                /\ weeklyDir' = rollover.dir
                /\ currentWeekFile' = write_current_week(merged, now[2], now[2])
                /\ exit_status' = "ok"

\* Variant: --force empties the cache file as soon as the cache is loaded
main_force_truncates(force_arg, credentials, token_ok, fetch_ok, new_activities, now) ==
    /\ UNCHANGED <<cursorVars, mergeVars, weekVars>>
    /\ force' = force_arg
    /\ clock' = now
    /\ IF ~credentials
       THEN /\ exit_status' = "config_error"
            /\ UNCHANGED <<cacheFile, currentWeekFile, weeklyDir>>
       ELSE IF load_cache_raises(cacheFile) \/ (~force_arg /\ ~is_mapping(cacheFile))
       THEN /\ exit_status' = "crash"
            /\ UNCHANGED <<cacheFile, currentWeekFile, weeklyDir>>
       ELSE IF ~token_ok
       THEN /\ exit_status' = "auth_error"
            /\ cacheFile' = IF force_arg THEN save_cache(<<>>) ELSE cacheFile
            /\ UNCHANGED <<currentWeekFile, weeklyDir>>
       ELSE IF ~fetch_ok
       THEN /\ exit_status' = "fetch_error"
            /\ cacheFile' = IF force_arg THEN save_cache(<<>>) ELSE cacheFile
            /\ UNCHANGED <<currentWeekFile, weeklyDir>>
       ELSE LET cache == cache_in_use(cacheFile, force_arg)
                merged == merge(cache, new_activities).cache
                rollover == check_weekly_rollover(weeklyDir, merged, now[1], now[1])
            IN  /\ cacheFile' = save_cache(merged)
                /\ weeklyDir' = rollover.dir
                /\ currentWeekFile' = write_current_week(merged, now[2], now[2])
                /\ exit_status' = "ok"

\* A run of main.  A cache file that makes load_cache raise (line 85), or
\* that makes get_most_recent_timestamp raise on what load_cache returned
\* (line 102, not reached with --force), ends the run before the token refresh.
main(force_arg, credentials, token_ok, fetch_ok, new_activities, now) ==
    /\ UNCHANGED <<cursorVars, mergeVars, weekVars>>
    /\ force' = force_arg
    /\ clock' = now
    /\ IF ~credentials
       THEN /\ exit_status' = "config_error"
            /\ UNCHANGED <<cacheFile, currentWeekFile, weeklyDir>>
       ELSE IF load_cache_raises(cacheFile) \/ (~force_arg /\ ~is_mapping(cacheFile))
       THEN /\ exit_status' = "crash"
            /\ UNCHANGED <<cacheFile, currentWeekFile, weeklyDir>>
       ELSE IF ~token_ok
       THEN /\ exit_status' = "auth_error"
            /\ UNCHANGED <<cacheFile, currentWeekFile, weeklyDir>>
       ELSE IF ~fetch_ok
       THEN /\ exit_status' = "fetch_error"
            /\ UNCHANGED <<cacheFile, currentWeekFile, weeklyDir>>
       ELSE LET cache == cache_in_use(cacheFile, force_arg)
                merged == merge(cache, new_activities).cache
                rollover == check_weekly_rollover(weeklyDir, merged, now[1], now[1])
            IN  /\ cacheFile' = save_cache(merged)
                /\ weeklyDir' = rollover.dir
                /\ currentWeekFile' = write_current_week(merged, now[2], now[2])
                /\ exit_status' = "ok"

LegacyLists == SeqsUpTo(Activity, MaxLegacy)

\* The variables of the merge, cursor and partition checks when unused
IdleCursor == utc_offset = 0 /\ after_epoch = <<>>
IdleMerge ==
    /\ mg_base = <<>> /\ mg_prev = <<>> /\ mg_cache = <<>> /\ mg_reverse = <<>>
    /\ mg_batches = <<>> /\ mg_added = <<>>
IdleWeek == pw_cache = <<>> /\ pw_weeks = <<>>
IdleFetch == fetched = <<>>
IdleSteps == steps = <<>> /\ mem = <<>>
IdleSource == source = {}
IdleRun ==
    /\ cacheFile = NoFile /\ currentWeekFile = NoFile /\ weeklyDir = {}
    /\ force = FALSE /\ exit_status = "none" /\ clock = <<>>

Init ==
    /\ cacheFile \in { NoFile, [kind |-> "corrupt"] }
                       \cup { [kind |-> "list", data |-> l] : l \in LegacyLists }
    /\ currentWeekFile = NoFile
    /\ weeklyDir = {}
    /\ force = FALSE
    /\ exit_status = "none"
    /\ clock = <<>>
    /\ IdleCursor /\ IdleMerge /\ IdleWeek /\ IdleFetch /\ IdleSteps /\ IdleSource

Run ==
    \E force_arg \in BOOLEAN, new_activities \in FetchResults, now \in ClockReads :
        /\ main(force_arg, TRUE, TRUE, TRUE, new_activities, now)
        /\ UNCHANGED <<fetchVars, stepVars, sourceVars>>

Next == Run

Spec == Init /\ [][Next]_vars

----------------------------------------------------------------------------
(* Runs with a paged fetch, and runs that fail: a first completed run,     *)
(* then runs that end at the credentials check, at the token refresh or at *)
(* a page request                                                          *)

\* The pages of n records the source can send: each activity once, in the
\* order of the identifiers the source assigned
PagesOf(n) ==
    { [i \in 1 .. n |-> [id |-> ids[i], start_date_local |-> starts[i]]] :
        ids \in { f \in [1 .. n -> Ids] : \A i, j \in 1 .. n : i < j => f[i] < f[j] },
        starts \in [1 .. n -> Starts] }

\* Answers to a fetch that returns: one short page, or one full page
OkResponses ==
    { << OkPage(b) >> : b \in UNION { PagesOf(n) : n \in 0 .. PageSize } }

\* Answers to a fetch that raises: a bad status on the first page, or on the
\* page after a full one
FailingResponses ==
    { << ErrorPage >> } \cup { << OkPage(b), ErrorPage >> : b \in PagesOf(PageSize) }

PagedRun(force_arg, credentials, token_ok, responses, now) ==
    LET fetch == fetch_activities_after(responses)
    IN  /\ main(force_arg, credentials, token_ok, fetch.ok, fetch.all_activities, now)
        /\ UNCHANGED <<stepVars, sourceVars>>
        /\ fetched' = IF exit_status' \in {"ok", "fetch_error"}
                       THEN [i \in 1 .. fetch.requests |-> Response(responses, i)]
                       ELSE <<>>

RunClocks == { << now, now >> : now \in NowSamples }

\* A run that completes while no permanent report is on disk
FirstRun ==
    \E force_arg \in BOOLEAN, responses \in OkResponses, now \in RunClocks :
        /\ weeklyDir = {}
        /\ PagedRun(force_arg, TRUE, TRUE, responses, now)

\* A forced run that completes after a run without --force completed
Resync ==
    \E responses \in OkResponses, now \in RunClocks :
        /\ exit_status = "ok" /\ ~force
        /\ PagedRun(TRUE, TRUE, TRUE, responses, now)

\* The runs below end before check_weekly_rollover reads the clock
ConfigError ==
    \E force_arg \in BOOLEAN :
        PagedRun(force_arg, FALSE, TRUE, <<>>, <<>>)

AuthError ==
    \E force_arg \in BOOLEAN :
        PagedRun(force_arg, TRUE, FALSE, <<>>, <<>>)

FetchError ==
    \E force_arg \in BOOLEAN, responses \in FailingResponses :
        PagedRun(force_arg, TRUE, TRUE, responses, <<>>)

NextFetch == FirstRun \/ Resync \/ ConfigError \/ AuthError \/ FetchError

\* The cache files of Init, and files that hold JSON of another shape
InitFetch ==
    /\ cacheFile \in { NoFile, [kind |-> "corrupt"], [kind |-> "scalars"], [kind |-> "number"] }
                       \cup { [kind |-> "list", data |-> l] : l \in LegacyLists }
    /\ currentWeekFile = NoFile
    /\ weeklyDir = {}
    /\ force = FALSE
    /\ exit_status = "none"
    /\ clock = <<>>
    /\ IdleCursor /\ IdleMerge /\ IdleWeek /\ IdleFetch /\ IdleSteps /\ IdleSource

SpecFetch == InitFetch /\ [][NextFetch]_vars

----------------------------------------------------------------------------
(* Runs against a source that holds a set of activities, to which records  *)
(* are added between the runs.  The source answers with the activities     *)
(* that started after the instant it is asked for, oldest first; the start *)
(* instant of an activity is its local start in the zone's offset to UTC.  *)

start_instant(a, offset) == a.start_date_local - offset

RECURSIVE OldestFirst(_)
OldestFirst(records) ==
    IF records = {} THEN <<>>
    ELSE LET first == CHOOSE a \in records :
                        \A b \in records :
                            \/ a.start_date_local < b.start_date_local
                            \/ a.start_date_local = b.start_date_local /\ a.id <= b.id
         IN  << first >> \o OldestFirst(records \ { first })

\* The answer of the source to params={"after": after_epoch}
source_activities_after(records, after, offset) ==
    OldestFirst({ a \in records : start_instant(a, offset) > after })

\* The first and the last tick of week 1, without drift between the reads
SyncClocks == { << now, now >> : now \in { TicksPerWeek, 2 * TicksPerWeek - 1 } }

\* What appears at the source between two runs: nothing, or an activity
\* with a new identifier
Appearing(records) ==
    { {} } \cup { { a } : a \in { x \in Activity : \A b \in records : b.id # x.id } }

SyncRun ==
    \E force_arg \in BOOLEAN, now \in SyncClocks, appeared \in Appearing(source) :
        LET records == source \cup appeared
            after == fetch_window(cacheFile, force_arg, now[1], utc_offset)
            new_activities == source_activities_after(records, after, utc_offset)
        IN  /\ main(force_arg, TRUE, TRUE, TRUE, new_activities, now)
            /\ source' = records
            /\ UNCHANGED <<fetchVars, stepVars>>

InitSource ==
    /\ cacheFile = NoFile /\ currentWeekFile = NoFile /\ weeklyDir = {}
    /\ force = FALSE /\ exit_status = "none" /\ clock = <<>>
    /\ utc_offset \in (0 - MaxOffset) .. MaxOffset
    /\ after_epoch = <<>>
    /\ source = {}
    /\ IdleMerge /\ IdleWeek /\ IdleFetch /\ IdleSteps

NextSource == SyncRun

SpecSource == InitSource /\ [][NextSource]_vars

----------------------------------------------------------------------------
(* The merge loop on its own: batches merged one after the other into a    *)
(* cache, and the same batches merged in the opposite order                *)

Batches == SeqsUpTo(Activity, MaxBatch)

\* The caches main can hold: each record under the key of its id, in any order
Caches ==
    { [i \in 1 .. Len(l) |-> [key |-> str(l[i].id), val |-> l[i]]] :
        l \in { x \in SeqsUpTo(Activity, MaxId) :
                  \A i, j \in 1 .. Len(x) : i # j => x[i].id # x[j].id } }

InitMerge ==
    /\ mg_base \in Caches
    /\ mg_prev = mg_base /\ mg_cache = mg_base /\ mg_reverse = mg_base
    /\ mg_batches = <<>> /\ mg_added = <<>>
    /\ IdleRun /\ IdleCursor /\ IdleWeek /\ IdleFetch /\ IdleSteps /\ IdleSource

\* One pass of the merge loop over a batch
MergeBatch(batch) ==
    /\ LET result == merge(mg_cache, batch)
       IN  /\ mg_cache' = result.cache
           /\ mg_added' = Append(mg_added, result.added)
    /\ mg_prev' = mg_cache
    /\ mg_batches' = Append(mg_batches, batch)
    /\ mg_reverse' =
         IF mg_batches = <<>> THEN merge(mg_base, batch).cache
         ELSE merge(merge(mg_base, batch).cache, mg_batches[1]).cache
    /\ UNCHANGED <<mg_base, runVars, cursorVars, weekVars, fetchVars, stepVars, sourceVars>>

MergeFirst ==
    \E batch \in Batches :
        /\ mg_batches = <<>>
        /\ MergeBatch(batch)

\* The batch that was merged is fetched and merged once more
MergeAgain ==
    /\ Len(mg_batches) = 1
    /\ MergeBatch(mg_batches[1])

\* A second batch that shares no identifier with the first
MergeDisjoint ==
    \E batch \in Batches :
        /\ Len(mg_batches) = 1
        /\ mg_batches[1] # <<>> /\ batch # <<>>
        /\ \A i \in 1 .. Len(batch), j \in 1 .. Len(mg_batches[1]) :
              batch[i].id # mg_batches[1][j].id
        /\ MergeBatch(batch)

NextMerge == MergeFirst \/ MergeAgain \/ MergeDisjoint

SpecMerge == InitMerge /\ [][NextMerge]_vars

----------------------------------------------------------------------------
(* The fetch window on its own: a cache file, the --force flag, a clock    *)
(* and a time zone, and the lower bound main computes from them            *)

\* The cache files a run can find: none, an unparsable one, a legacy list,
\* or the mapping an earlier run saved
CacheFiles ==
    { NoFile, [kind |-> "corrupt"] }
        \cup { [kind |-> "list", data |-> l] : l \in LegacyLists }
        \cup { save_cache(c) : c \in Caches }

\* Every tick of every day of the weeks 1 .. NumWeeks
EveryNow == TicksPerWeek .. ((NumWeeks + 1) * TicksPerWeek - 1)

InitCursor ==
    /\ cacheFile \in CacheFiles
    /\ force \in BOOLEAN
    /\ clock \in { << now >> : now \in EveryNow }
    /\ utc_offset \in (0 - MaxOffset) .. MaxOffset
    /\ after_epoch = <<>>
    /\ currentWeekFile = NoFile /\ weeklyDir = {} /\ exit_status = "none"
    /\ IdleMerge /\ IdleWeek /\ IdleFetch /\ IdleSteps /\ IdleSource

FetchWindow ==
    /\ after_epoch = <<>>
    /\ after_epoch' = << fetch_window(cacheFile, force, clock[1], utc_offset) >>
    /\ UNCHANGED <<utc_offset, runVars, mergeVars, weekVars, fetchVars, stepVars, sourceVars>>

NextCursor == FetchWindow

SpecCursor == InitCursor /\ [][NextCursor]_vars

----------------------------------------------------------------------------
(* The week partition on its own: a cache with records in the weeks 0 and  *)
(* 1, and activities_for_week of every Monday around them                  *)

\* The start instants of the partitioned records: every tick of the Mondays,
\* Wednesdays and Sundays of the weeks 0 and 1
PartStarts ==
    { t \in 0 .. (2 * TicksPerWeek - 1) : (t \div TicksPerDay) % DaysPerWeek \in {0, 2, 6} }


\* The caches of n records: distinct ids in any order, any start instants
PartCachesOf(n) ==
    { [i \in 1 .. n |-> [key |-> str(ids[i]),
                         val |-> [id |-> ids[i], start_date_local |-> starts[i]]]] :
        ids \in { f \in [1 .. n -> Ids] : \A i, j \in 1 .. n : i # j => f[i] # f[j] },
        starts \in [1 .. n -> PartStarts] }

\* The Mondays of the weeks -1 .. 2
Mondays == { DaysPerWeek * w : w \in -1 .. 2 }

InitWeek ==
    /\ \E n \in 0 .. MaxId : pw_cache \in PartCachesOf(n)
    /\ pw_weeks = <<>>
    /\ IdleRun /\ IdleCursor /\ IdleMerge /\ IdleFetch /\ IdleSteps /\ IdleSource

PartitionWeeks ==
    /\ pw_weeks = <<>>
    /\ pw_weeks' = [m \in Mondays |-> activities_for_week(pw_cache, m)]
    /\ UNCHANGED <<pw_cache, runVars, cursorVars, mergeVars, fetchVars, stepVars, sourceVars>>

NextWeek == PartitionWeeks

SpecWeek == InitWeek /\ [][NextWeek]_vars

----------------------------------------------------------------------------
(* The reports on their own: a cache with records in the weeks 0 and 1, a  *)
(* clock, and the live and permanent reports generated from them           *)

\* The instants of the report clock: the first tick of every Monday, Wednesday
\* and Sunday of the weeks 1 and 2
ReportNows ==
    { (DaysPerWeek * w + d) * TicksPerDay : w \in 1 .. 2, d \in {0, 2, 6} }

InitReport ==
    /\ \E n \in 0 .. MaxId : pw_cache \in PartCachesOf(n)
    /\ clock \in { << now >> : now \in ReportNows }
    /\ pw_weeks = <<>>
    /\ cacheFile = NoFile /\ currentWeekFile = NoFile /\ weeklyDir = {}
    /\ force = FALSE /\ exit_status = "none"
    /\ IdleCursor /\ IdleMerge /\ IdleFetch /\ IdleSteps /\ IdleSource

\* check_weekly_rollover and write_current_week on the cache, as main calls
\* them, with no permanent report on disk yet
WriteReports ==
    /\ currentWeekFile = NoFile
    /\ weeklyDir' = check_weekly_rollover(weeklyDir, pw_cache, clock[1], clock[1]).dir
    /\ currentWeekFile' = write_current_week(pw_cache, clock[1], clock[1])
    /\ UNCHANGED <<cacheFile, force, exit_status, clock, cursorVars, mergeVars, weekVars, fetchVars, stepVars, sourceVars>>

NextReport == WriteReports

SpecReport == InitReport /\ [][NextReport]_vars

----------------------------------------------------------------------------
(* main statement by statement, for one process or for two processes that  *)
(* run it at the same time on the same data directory.  Only runs that     *)
(* complete are followed here.                                             *)

Procs == {1, 2}

\* Variant: the cache is saved at the end of main, after the reports
main_steps_save_last ==
    << "load", "token", "fetch", "merge", "rollover", "summary", "write", "live", "save" >>

\* The statements of main in program order: load_cache (419), the token
\* refresh (433), the fetch (434), the merge loop (436-442), save_cache (445),
\* check_weekly_rollover up to its existence check (385-392), the existence
\* check of generate_weekly_summary (341-345), its write (347-377), and
\* write_current_week (451)
main_steps ==
    << "load", "token", "fetch", "merge", "save", "rollover", "summary", "write", "live" >>

IndexOf(name) == CHOOSE i \in 1 .. Len(main_steps) : main_steps[i] = name

Last(p) == IF steps[p] = <<>> THEN "start" ELSE steps[p][Len(steps[p])]

\* The statement that precedes a statement of main; the statements of the
\* rollover that are skipped when the report exists are stepped over
RECURSIVE PrevOf(_)
PrevOf(i) ==
    IF i = 1 THEN "start"
    ELSE IF main_steps[i - 1] \in {"summary", "write"} THEN PrevOf(i - 1)
    ELSE main_steps[i - 1]

\* Control of process p is at a statement of main: right behind the statement
\* before it, or behind the statements of the rollover, which end early when
\* the report exists
At(p, name) ==
    IF name = "summary" THEN Last(p) = "rollover" /\ mem[p].missing
    ELSE IF name = "write" THEN Last(p) = "summary" /\ mem[p].missing
    ELSE LET prev == PrevOf(IndexOf(name))
         IN  \/ Last(p) = prev /\ (prev = "rollover" => ~mem[p].missing)
             \/ /\ prev = "rollover"
                /\ \/ Last(p) = "write"
                   \/ Last(p) = "summary" /\ ~mem[p].missing

Finished(p) == Last(p) = main_steps[Len(main_steps)]

NoLocals == [cache |-> <<>>, new_activities |-> <<>>, now |-> 0, last_monday |-> 0, missing |-> FALSE]

InitSteps ==
    /\ cacheFile \in { NoFile, [kind |-> "corrupt"] }
                       \cup { [kind |-> "list", data |-> l] : l \in LegacyLists }
    /\ currentWeekFile = NoFile
    /\ weeklyDir = {}
    /\ force = FALSE /\ exit_status = "none" /\ clock = <<>>
    /\ steps = [p \in Procs |-> <<>>]
    /\ mem = [p \in Procs |-> NoLocals]
    /\ IdleCursor /\ IdleMerge /\ IdleWeek /\ IdleFetch /\ IdleSource

\* Process p executes a statement: the statement is logged
Did(p, name) ==
    /\ At(p, name)
    /\ steps' = [steps EXCEPT ![p] = Append(@, name)]
    /\ UNCHANGED <<force, exit_status, clock, cursorVars, mergeVars, weekVars, fetchVars, sourceVars>>

StepLoad(p, force_arg) ==
    /\ Did(p, "load")
    /\ mem' = [mem EXCEPT ![p].cache = cache_in_use(cacheFile, force_arg)]
    /\ UNCHANGED <<cacheFile, currentWeekFile, weeklyDir>>

StepToken(p) ==
    /\ Did(p, "token")
    /\ UNCHANGED <<mem, cacheFile, currentWeekFile, weeklyDir>>

StepFetch(p, new_activities) ==
    /\ Did(p, "fetch")
    /\ mem' = [mem EXCEPT ![p].new_activities = new_activities]
    /\ UNCHANGED <<cacheFile, currentWeekFile, weeklyDir>>

StepMerge(p) ==
    /\ Did(p, "merge")
    /\ mem' = [mem EXCEPT ![p].cache = merge(mem[p].cache, mem[p].new_activities).cache]
    /\ UNCHANGED <<cacheFile, currentWeekFile, weeklyDir>>

StepSave(p) ==
    /\ Did(p, "save")
    /\ cacheFile' = save_cache(mem[p].cache)
    /\ UNCHANGED <<mem, currentWeekFile, weeklyDir>>

\* check_weekly_rollover: the clock read and "if not week_path.exists()"
StepRollover(p, now) ==
    /\ Did(p, "rollover")
    /\ LET last_monday == week_monday(now) - DaysPerWeek
       IN  mem' = [mem EXCEPT ![p].now = now,
                              ![p].last_monday = last_monday,
                              ![p].missing = ~Exists(weeklyDir, iso_week_label(last_monday))]
    /\ UNCHANGED <<cacheFile, currentWeekFile, weeklyDir>>

\* generate_weekly_summary: "if week_path.exists(): return"
StepSummary(p) ==
    /\ Did(p, "summary")
    /\ mem' = [mem EXCEPT ![p].missing = ~Exists(weeklyDir, iso_week_label(mem[p].last_monday))]
    /\ UNCHANGED <<cacheFile, currentWeekFile, weeklyDir>>

\* generate_weekly_summary: the report is built and written
StepWrite(p) ==
    /\ Did(p, "write")
    /\ weeklyDir' = WriteWeekly(weeklyDir, iso_week_label(mem[p].last_monday),
                                WeeklyText(mem[p].cache, mem[p].last_monday, mem[p].now))
    /\ UNCHANGED <<mem, cacheFile, currentWeekFile>>

StepLive(p) ==
    /\ Did(p, "live")
    /\ currentWeekFile' = write_current_week(mem[p].cache, mem[p].now, mem[p].now)
    /\ UNCHANGED <<mem, cacheFile, weeklyDir>>

Step(p, Forces, Nows) ==
    \/ \E force_arg \in Forces : StepLoad(p, force_arg)
    \/ StepToken(p)
    \/ \E new_activities \in FetchResults : StepFetch(p, new_activities)
    \/ StepMerge(p)
    \/ StepSave(p)
    \/ \E now \in Nows : StepRollover(p, now)
    \/ StepSummary(p)
    \/ StepWrite(p)
    \/ StepLive(p)

\* One process, with or without --force
NextSteps == Step(1, BOOLEAN, NowSamples)

SpecSteps == InitSteps /\ [][NextSteps]_vars

\* The first and the last tick of week 1
SameWeek == { TicksPerWeek, 2 * TicksPerWeek - 1 }

\* Two processes started without --force in the same week, not serialized
NextRace == \E p \in Procs : Step(p, {FALSE}, SameWeek)

SpecRace == InitSteps /\ [][NextRace]_vars

----------------------------------------------------------------------------
(* Properties of the merge *)

LastBatch == mg_batches[Len(mg_batches)]

BatchKeys(batch) == { ToString(batch[i].id) : i \in 1 .. Len(batch) }

\* The first record of a batch that carries an identifier
FirstWithKey(batch, k) ==
    batch[CHOOSE i \in 1 .. Len(batch) :
            /\ ToString(batch[i].id) = k
            /\ \A j \in 1 .. (i - 1) : ToString(batch[j].id) # k]

\* C3: a merge keeps every existing entry as it is, inserts under each absent
\* identifier the first incoming record that carries it, inserts nothing else,
\* and returns the number of identifiers that are new in the cache
C3_MergeInsertsAbsent ==
    mg_batches # <<>> =>
        /\ Items(mg_prev) \subseteq Items(mg_cache)
        /\ Keys(mg_cache) = Keys(mg_prev) \cup BatchKeys(LastBatch)
        /\ Len(mg_cache) = Cardinality(Keys(mg_cache))
        /\ \A e \in Items(mg_cache) :
              e.key \notin Keys(mg_prev) => e.val = FirstWithKey(LastBatch, e.key)
        /\ mg_added[Len(mg_added)] = Cardinality(Keys(mg_cache) \ Keys(mg_prev))

\* C3 witness: a batch brought a new identifier twice with different fields,
\* and the next batch a cached identifier with other fields
C3_Witness ==
    /\ Len(mg_batches) = 2
    /\ \E i \in 1 .. Len(LastBatch), e \in Items(mg_prev) :
          e.key = ToString(LastBatch[i].id) /\ e.val # LastBatch[i]
    /\ \E i, j \in 1 .. Len(mg_batches[1]) :
          /\ i < j
          /\ mg_batches[1][i].id = mg_batches[1][j].id
          /\ mg_batches[1][i] # mg_batches[1][j]
          /\ ToString(mg_batches[1][i].id) \notin Keys(mg_base)

\* C4: merging the batch that was just merged leaves the mapping as it is and
\* reports zero newly inserted records
C4_MergeIdempotent ==
    (Len(mg_batches) = 2 /\ mg_batches[1] = mg_batches[2]) =>
        /\ Items(mg_cache) = Items(mg_prev)
        /\ Len(mg_cache) = Len(mg_prev)
        /\ mg_added[2] = 0

\* C4 witness: a batch that inserted records has been merged a second time
C4_Witness ==
    /\ Len(mg_batches) = 2 /\ mg_batches[1] = mg_batches[2]
    /\ mg_added[1] > 0

\* C5: two batches that share no identifier give the same mapping in either
\* order of merging
C5_MergeCommutes ==
    (Len(mg_batches) = 2 /\ BatchKeys(mg_batches[1]) \cap BatchKeys(mg_batches[2]) = {}) =>
        /\ Items(mg_cache) = Items(mg_reverse)
        /\ Len(mg_cache) = Len(mg_reverse)

\* C5 witness: two non-empty batches without a common identifier were merged
\* and the two orders inserted their records in different positions
C5_Witness ==
    /\ Len(mg_batches) = 2
    /\ mg_batches[1] # <<>> /\ mg_batches[2] # <<>>
    /\ BatchKeys(mg_batches[1]) \cap BatchKeys(mg_batches[2]) = {}
    /\ mg_cache # mg_reverse

----------------------------------------------------------------------------
(* Properties of the fetch window and of the week partition *)

\* The records of a mapping whose local start date lies in the week of a Monday
RecordsOfWeek(cache, monday_date) ==
    { e.val : e \in { x \in Items(cache) :
                        /\ monday_date <= x.val.start_date_local \div TicksPerDay
                        /\ x.val.start_date_local \div TicksPerDay <= monday_date + 6 } }

\* The start instants of the records a run loads from the cache file
LoadedStarts == { e.val.start_date_local : e \in Items(load_cache(cacheFile)) }

\* C9: with a non-empty cache and no --force the lower bound of the fetch is
\* the greatest start timestamp in the cache; with an empty cache or --force
\* it is now minus 14 days, whatever the cache file holds
C9_FetchCursor ==
    after_epoch # <<>> =>
        IF ~force /\ LoadedStarts # {}
        THEN /\ after_epoch[1] \in LoadedStarts
             /\ \A t \in LoadedStarts : t <= after_epoch[1]
        ELSE after_epoch[1] = (clock[1] - utc_offset) - 14 * TicksPerDay

\* C9 witness: the window of a forced run was computed over a cache file
\* that holds records
C9_Witness ==
    /\ after_epoch # <<>>
    /\ force
    /\ Cardinality(LoadedStarts) > 1

Range(seq) == { seq[i] : i \in 1 .. Len(seq) }

\* C10: activities_for_week of a Monday is exactly the cached records whose
\* local start date lies in that Monday's seven days, in ascending order of
\* start, and every cached record is in the result of exactly one Monday
C10_WeekPartition ==
    pw_weeks # <<>> =>
        /\ \A m \in Mondays :
              /\ Range(pw_weeks[m]) = RecordsOfWeek(pw_cache, m)
              /\ Len(pw_weeks[m]) = Cardinality(RecordsOfWeek(pw_cache, m))
              /\ \A i, j \in 1 .. Len(pw_weeks[m]) :
                    i < j => pw_weeks[m][i].start_date_local <= pw_weeks[m][j].start_date_local
        /\ \A e \in Items(pw_cache) :
              Cardinality({ m \in Mondays : e.val \in Range(pw_weeks[m]) }) = 1

\* C10 witness: a week lists two records in the opposite of their order in
\* the cache
C10_Witness ==
    /\ pw_weeks # <<>>
    /\ \E m \in Mondays :
          /\ Len(pw_weeks[m]) = 2
          /\ pw_weeks[m][1] = pw_cache[2].val

----------------------------------------------------------------------------
(* Properties of serialized runs *)

Completed == exit_status = "ok"

\* The mapping a cache file holds, empty when it holds none
MappingOf(file) ==
    IF file.kind \in {"scalars", "number"} THEN <<>> ELSE load_cache(file)

Cached == MappingOf(cacheFile)

\* The dates a report lists, as a set
ListedDates(text) == { text.rows[i].date : i \in 1 .. Len(text.rows) }

\* A report lists exactly the records of a mapping that fall in a week
ListsWeekOf(text, cache, monday_date) ==
    /\ Len(text.rows) = Cardinality(RecordsOfWeek(cache, monday_date))
    /\ ListedDates(text) =
         { r.start_date_local \div TicksPerDay : r \in RecordsOfWeek(cache, monday_date) }
    /\ (text.placeholder # "") <=> (RecordsOfWeek(cache, monday_date) = {})

\* The Monday of the week an instant lies in
MondayOf(now) == CHOOSE m \in { DaysPerWeek * w : w \in -1 .. (NumWeeks + 1) } :
                    /\ m * TicksPerDay <= now
                    /\ now < (m + DaysPerWeek) * TicksPerDay

\* The week number a permanent report of the week of a Monday is filed under
LabelOf(monday_date) == CHOOSE w \in -2 .. (NumWeeks + 1) : DaysPerWeek * w = monday_date

\* C1: once a permanent report exists for a week label, no later run changes
\* its content, whatever the run fetches, whatever the clock says, forced or not
C1_WriteOnce ==
    [][ \A f \in weeklyDir : f \in weeklyDir' ]_vars

\* C1 witness: a permanent report is on disk and the cache has changed for its
\* week since it was written
C1_Witness ==
    \E f \in weeklyDir : ~ListsWeekOf(f.text, Cached, f.text.monday)

\* C2: a completed run without force that starts from a readable cache file
\* keeps every (identifier, record) pair of the persisted cache
C2_CacheGrows ==
    [][ (Completed' /\ ~force' /\ cacheFile.kind \in {"dict", "list"})
          => Items(load_cache(cacheFile)) \subseteq Items(load_cache(cacheFile')) ]_vars

\* C2 witness: a run without force has completed on a cache that already held
\* a record
C2_Witness ==
    /\ Completed /\ ~force
    /\ Len(Cached) > 1

\* C6, for one instant 'now' of the run: the permanent report of the week
\* before the week of now exists and the live report is the one of the week
\* of now
C6_RolledOverAt(now) ==
    /\ \E f \in weeklyDir : f.label = LabelOf(MondayOf(now) - DaysPerWeek)
    /\ currentWeekFile.kind = "current"
    /\ currentWeekFile.monday = MondayOf(now)

\* C6: after every completed run the permanent report of the week before now
\* exists, the live report is the one of the week of now, and a permanent
\* report the run created lists that week's records of the cache after the
\* merge under that week's label
C6_Rollover ==
    /\ [](Completed => \E i \in 1 .. Len(clock) : C6_RolledOverAt(clock[i]))
    /\ [][ \A f \in weeklyDir' \ weeklyDir :
             /\ f.text.week = f.label
             /\ f.label = LabelOf(f.text.monday)
             /\ ListsWeekOf(f.text, load_cache(cacheFile'), f.text.monday) ]_vars

\* C7: after every completed run the live report lists exactly the records of
\* the cache, as that run left it, that fall in the week of the run's now, and
\* the placeholder row when there are none
C7_LiveReport ==
    Completed =>
        /\ currentWeekFile.kind = "current"
        /\ currentWeekFile.updated = clock[2]
        /\ currentWeekFile.monday = MondayOf(clock[2])
        /\ ListsWeekOf(currentWeekFile, Cached, MondayOf(clock[2]))
        /\ currentWeekFile.placeholder \in {"", "No activities yet"}

\* C7 witness: the live report lists an activity while the cache also holds a
\* record of another week
C7_Witness ==
    /\ Completed
    /\ currentWeekFile.rows # <<>>
    /\ Len(currentWeekFile.rows) < Len(Cached)

\* C8: a permanent report of week W is only created by a run whose now, as
\* check_weekly_rollover reads it, lies in the week right after W
C8_SingleWeekLookback ==
    [][ \A f \in weeklyDir' \ weeklyDir :
          MondayOf(clock'[1]) = DaysPerWeek * f.label + DaysPerWeek ]_vars

\* C8 witness: week 0 has cached records and no permanent report, while the
\* report of the later week 1 exists: week 0 was skipped
C8_Witness ==
    /\ RecordsOfWeek(Cached, 0) # {}
    /\ ~ \E f \in weeklyDir : f.label = 0
    /\ \E f \in weeklyDir : f.label = 1

----------------------------------------------------------------------------
(* Properties of the reports *)

\* The days of a week that have begun at an instant: all seven for a past week
DaysConsidered(monday_date, now) ==
    Cardinality({ d \in monday_date .. (monday_date + 6) : d * TicksPerDay <= now })

\* C11: in every generated report the rest-day count lies between 0 and the
\* days considered: the days from the Monday through today for the live report,
\* 7 for the permanent report of the previous week
C11_RestDaysInRange ==
    /\ currentWeekFile.kind = "current" =>
          /\ currentWeekFile.totals.rest[1] >= 0
          /\ currentWeekFile.totals.rest[1]
                <= DaysConsidered(currentWeekFile.monday, clock[1])
    /\ \A f \in weeklyDir :
          /\ f.text.totals.rest[1] >= 0
          /\ f.text.totals.rest[1] <= DaysConsidered(f.text.monday, clock[1])

----------------------------------------------------------------------------
(* Properties of failing and forced runs *)

\* The last run's fetch was ended by a bad status
FetchFailed == fetched # <<>> /\ fetched[Len(fetched)].status # 200

\* The records of the pages the last run received
FetchedRecords ==
    UNION { { fetched[p].batch[i] : i \in 1 .. Len(fetched[p].batch) } :
              p \in 1 .. Len(fetched) }

FilesUnchanged ==
    /\ cacheFile' = cacheFile
    /\ currentWeekFile' = currentWeekFile
    /\ weeklyDir' = weeklyDir

\* C12 as stated: when a page request returns a bad status the run ends with
\* a fatal error and the records of the pages received before it are in the
\* persisted cache
C12_ProgressKept ==
    [][ FetchFailed' =>
          /\ exit_status' = "fetch_error"
          /\ \A r \in FetchedRecords' : ToString(r.id) \in Keys(MappingOf(cacheFile')) ]_vars

\* C12 amended: when a page request returns a bad status the run ends with a
\* fatal error and writes nothing: the cache file and the reports are those of
\* before the run, and a record of an earlier page that was not cached before
\* is not cached after
C12_FetchFailureWritesNothing ==
    [][ FetchFailed' =>
          /\ exit_status' = "fetch_error"
          /\ FilesUnchanged
          /\ \A r \in FetchedRecords' :
                ToString(r.id) \notin Keys(MappingOf(cacheFile))
                    => ToString(r.id) \notin Keys(MappingOf(cacheFile')) ]_vars

\* C12 witness: a fetch failed after a full page, over a cache file that
\* holds records, and a record of that page is not in the cache
C12_Witness ==
    /\ FetchFailed /\ exit_status = "fetch_error"
    /\ Len(fetched) = 2
    /\ Cached # <<>>
    /\ \E r \in FetchedRecords : ToString(r.id) \notin Keys(Cached)

\* C13: whatever the cache file holds, no run fails on it: a run with good
\* credentials, token and fetch completes, and a run that completes over a
\* file that holds no mapping saves exactly the fetched records
C13_CorruptNeverFatal ==
    [][ /\ exit_status' # "crash"
        /\ (Completed' /\ cacheFile.kind \notin {"dict", "list"})
              => Keys(MappingOf(cacheFile')) = { ToString(r.id) : r \in FetchedRecords' } ]_vars

\* C14: a completed run with --force persists exactly the records its fetch
\* returned, each under its identifier, and a run with --force that does not
\* complete leaves the cache file as it was
C14_ForceResync ==
    [][ force' =>
          IF Completed'
          THEN Items(MappingOf(cacheFile')) =
                 { [key |-> ToString(r.id), val |-> r] : r \in FetchedRecords' }
          ELSE cacheFile' = cacheFile ]_vars

\* C14 witness: a forced run completed and the permanent report of week 0,
\* written by an earlier run, lists a record of which the cache has none
C14_Witness ==
    /\ Completed /\ force
    /\ FetchedRecords # {}
    /\ \E f \in weeklyDir :
          /\ f.text.monday = 0 /\ f.text.rows # <<>>
          /\ RecordsOfWeek(Cached, 0) = {}

\* C16: a run that ends at the credentials check or at the token refresh
\* leaves the cache file, the live report and every permanent report as they
\* were, with or without --force
C16_EarlyExitWritesNothing ==
    [][ exit_status' \in {"config_error", "auth_error"} => FilesUnchanged ]_vars

\* C16 witness: a forced run ended at the token refresh over a cache file
\* with records, a live report and a permanent report
C16_Witness ==
    /\ exit_status = "auth_error" /\ force
    /\ Cached # <<>>
    /\ currentWeekFile.kind = "current"
    /\ weeklyDir # {}

----------------------------------------------------------------------------
(* Properties of the statements of a run *)

\* The statements of a log that are among those of a list, in the order of the log
Among(log, list) ==
    SelectSeq(log, LAMBDA x : \E i \in 1 .. Len(list) : list[i] = x)

\* Process p has executed main to its end
Complete(p) ==
    \A name \in {"load", "token", "fetch", "merge", "save", "rollover", "live"} :
        \E i \in 1 .. Len(steps[p]) : steps[p][i] = name

\* C15 as stated: a run goes through token acquisition, fetch, merge, rollover
\* check, report generation and persistence in this order; the cache is
\* persisted once, as the last step
C15_SaveLast ==
    \A p \in Procs :
        Complete(p) =>
            Among(steps[p], << "token", "fetch", "merge", "rollover", "live", "save" >>)
                = << "token", "fetch", "merge", "rollover", "live", "save" >>

\* C15 amended: a run goes through token acquisition, fetch, merge,
\* persistence, rollover check and report generation in this order; the cache
\* is persisted once, right after the merge, and whenever the run writes a
\* report the cache file already holds the merged cache
C15_SaveBeforeReports ==
    /\ [](\A p \in Procs :
            Complete(p) =>
                Among(steps[p], << "token", "fetch", "merge", "save", "rollover", "live" >>)
                    = << "token", "fetch", "merge", "save", "rollover", "live" >>)
    /\ [][ (weeklyDir' # weeklyDir \/ currentWeekFile' # currentWeekFile)
             => cacheFile = [kind |-> "dict", data |-> mem[1].cache] ]_vars

\* C15 witness: a run that fetched a record has written the permanent and the
\* live report and is complete
C15_Witness ==
    /\ Complete(1)
    /\ mem[1].new_activities # <<>>
    /\ weeklyDir # {} /\ currentWeekFile.kind = "current"

\* C17: a run that has passed both existence checks writes its report over
\* whatever is on disk by then: after its write the permanent report of the
\* week is the one built from its own cache
C17_LaterWriteWins ==
    [][ \A p \in Procs :
          steps'[p] = Append(steps[p], "write") =>
              \E f \in weeklyDir' :
                  /\ f.label = LabelOf(mem[p].last_monday)
                  /\ f.text.monday = mem[p].last_monday
                  /\ ListsWeekOf(f.text, mem[p].cache, mem[p].last_monday) ]_vars

\* C17 witness: two runs have both written the permanent report of the same
\* week from different caches, and the report on disk is that of one of them
C17_Witness ==
    \E p, q \in Procs :
        /\ p # q
        /\ \E i \in 1 .. Len(steps[p]) : steps[p][i] = "write"
        /\ \E i \in 1 .. Len(steps[q]) : steps[q][i] = "write"
        /\ mem[p].last_monday = mem[q].last_monday
        /\ \E f \in weeklyDir :
              /\ f.label = LabelOf(mem[q].last_monday)
              /\ ListsWeekOf(f.text, mem[q].cache, mem[q].last_monday)
              /\ ~ListsWeekOf(f.text, mem[p].cache, mem[p].last_monday)

----------------------------------------------------------------------------
(* Properties of the lookback window *)

\* C18: on a first or forced run the lower bound of the fetch, as an instant
\* of the local wall clock, is not later than the first instant of the Monday
\* of the week before the week of now
C18_LookbackCoversLastWeek ==
    (after_epoch # <<>> /\ (force \/ LoadedStarts = {})) =>
        after_epoch[1] + utc_offset <= (MondayOf(clock[1]) - 7) * TicksPerDay

\* C18 witness: a forced run in the last tick of a Sunday, in a zone off UTC,
\* over a cache file with records: the bound is one tick before that Monday
C18_Witness ==
    /\ after_epoch # <<>> /\ force /\ LoadedStarts # {}
    /\ utc_offset # 0
    /\ after_epoch[1] + utc_offset = (MondayOf(clock[1]) - 7) * TicksPerDay - 1

----------------------------------------------------------------------------
(* Properties of the incremental cursor *)

\* The greatest start timestamp of a mapping's records
GreatestStart(cache) ==
    CHOOSE t \in { e.val.start_date_local : e \in Items(cache) } :
        \A e \in Items(cache) : e.val.start_date_local <= t

\* The activities of the source that are not cached and whose start instant
\* is not later than the greatest start timestamp in the cache
LateRecords ==
    IF Cached = <<>> THEN {}
    ELSE { a \in source : /\ ToString(a.id) \notin Keys(Cached)
                          /\ a.start_date_local - utc_offset <= GreatestStart(Cached) }

====
